---- MODULE Spec2Model ----
(***************************************************************************)
(* A model of MarkOverParser (src/src/lib/markover-parser.ts).             *)
(*                                                                         *)
(* Text is a sequence of one-character strings.  Indices are those of the  *)
(* source (0-based): the helpers below translate to TLA+'s 1-based         *)
(* sequences, and -1 is "not found" as in String.prototype.indexOf.        *)
(***************************************************************************)
EXTENDS Integers, Sequences, FiniteSets, TLC

VARIABLES
    \* splitIntoPages
    html,        \* the html argument
    elems,       \* the element kinds html was rendered from
    pageHeight,  \* the pageHeight argument
    pages,       \* the pages array
    pagesNeeded,     \* the local pagesNeeded
    contentPerPage,  \* the local contentPerPage
    pi,          \* the loop variable i
    ppc,         \* position in splitIntoPages: "start", "loop", "done", "idle"
    \* findMatchingClosingTag
    mtext,       \* the text argument
    mstartIndex, \* the startIndex argument
    mopeningTag, \* the openingTag argument
    mi,          \* the local i
    mdepth,      \* the local depth
    mret,        \* the value returned
    mpc,         \* position in findMatchingClosingTag: "loop", "done", "idle"
    \* parse
    ptext,       \* the text argument of parse
    stack,       \* the invocations of processAllBlocks in progress, outermost first
    processed,   \* the local processed of parse
    mdI,         \* the local i of splitByDivsAndProcessMarkdown
    mdResult,    \* the local result of splitByDivsAndProcessMarkdown
    out,         \* the value parse returned
    bridgeLog,   \* history: the arguments of the calls of marked.parse, in order
    containers,  \* history: the containers processAngleBlocks spliced in, in order
    diagnostics, \* history: the console.warn calls, in order
    steps,       \* history: the number of steps parse has taken
    pc           \* position in parse: "start", "blocks", "markdown", "done", "idle"

pagerVars == <<html, elems, pageHeight, pages, pagesNeeded, contentPerPage, pi, ppc>>

matcherVars == <<mtext, mstartIndex, mopeningTag, mi, mdepth, mret, mpc>>

parserVars == <<ptext, stack, processed, mdI, mdResult, out, bridgeLog, containers, diagnostics,
               steps, pc>>

vars == <<pagerVars, matcherVars, parserVars>>

----------------------------------------------------------------------------
(* JavaScript string primitives *)

SetMin(S) == CHOOSE x \in S : \A y \in S : x <= y

SetMax(S) == CHOOSE x \in S : \A y \in S : x >= y

\* s.substring(a, b) for 0 <= a, with b clamped to the length as slice does
Substring(s, a, b) ==
    LET e == IF b > Len(s) THEN Len(s) ELSE b
    IN  IF a >= e THEN <<>> ELSE SubSeq(s, a + 1, e)

\* s.substring(a)
SubstringFrom(s, a) == Substring(s, a, Len(s))

\* whether pat occurs in s at 0-based index p
StartsAt(s, pat, p) ==
    /\ p >= 0
    /\ p + Len(pat) <= Len(s)
    /\ \A k \in 1..Len(pat) : s[p + k] = pat[k]

\* s.indexOf(pat, from)
IndexOf(s, pat, from) ==
    LET hits == {p \in from..(Len(s) - Len(pat)) : StartsAt(s, pat, p)}
    IN  IF hits = {} THEN -1 ELSE SetMin(hits)

\* s.lastIndexOf(pat)
LastIndexOf(s, pat) ==
    LET hits == {p \in 0..(Len(s) - Len(pat)) : StartsAt(s, pat, p)}
    IN  IF hits = {} THEN -1 ELSE SetMax(hits)

\* the characters String.prototype.trim removes
IsSpace(c) == c \in {" ", "\n"}

\* !s.trim()
IsBlank(s) == \A k \in 1..Len(s) : IsSpace(s[k])

\* s.trim()
Trim(s) ==
    IF IsBlank(s) THEN <<>>
    ELSE LET keep == {k \in 1..Len(s) : ~IsSpace(s[k])}
         IN  SubSeq(s, SetMin(keep), SetMax(keep))

RECURSIVE Concat(_)
\* the concatenation of a sequence of strings (Array.prototype.join(""))
Concat(ss) == IF ss = <<>> THEN <<>> ELSE Head(ss) \o Concat(Tail(ss))

\* Math.ceil(a / b) for a >= 0, b > 0
CeilDiv(a, b) == (a + b - 1) \div b

Max2(a, b) == IF a >= b THEN a ELSE b

Min2(a, b) == IF a <= b THEN a ELSE b

RECURSIVE GreedyCount(_, _)
\* The number of matches String.prototype.match finds for a /g pattern whose
\* possible matches are cands, a set of <<start, end>> (end exclusive), one
\* per start: the leftmost match at or after from, then on from its end.
GreedyCount(cands, from) ==
    LET live == {c \in cands : c[1] >= from}
    IN  IF live = {} THEN 0
        ELSE LET first == CHOOSE c \in live : \A d \in live : c[1] <= d[1]
             IN  1 + GreedyCount(live \ {first}, first[2])

RECURSIVE GreedyMatches(_, _)
\* The matches a /g pattern finds, in order, as GreedyCount counts them.
GreedyMatches(cands, from) ==
    LET live == {c \in cands : c[1] >= from}
    IN  IF live = {} THEN <<>>
        ELSE LET first == CHOOSE c \in live : \A d \in live : c[1] <= d[1]
             IN  <<first>> \o GreedyMatches(live \ {first}, first[2])

RECURSIVE Splice(_, _, _, _)
\* s.replace(pattern, ...): s from index from on, with the match ms[k] replaced
\* by reps[k] for every k and the text between the matches kept.
Splice(s, ms, reps, from) ==
    IF ms = <<>> THEN SubstringFrom(s, from)
    ELSE Substring(s, from, Head(ms)[1]) \o Head(reps)
             \o Splice(s, Tail(ms), Tail(reps), Head(ms)[2])

\* The matches of /<name[^>]*>/ in s, for each name in names: a match starts
\* where "<" and name stand and ends at the first ">" after the name.
TagMatches(s, names) ==
    LET opens == {p \in 0..(Len(s) - 1) :
                    s[p + 1] = "<" /\ \E n \in names : StartsAt(s, n, p + 1)}
        NameEnd(p) == p + 1 + Len(CHOOSE n \in names : StartsAt(s, <<"<">> \o n, p))
        Close(p) == IndexOf(s, <<">">>, NameEnd(p))
    IN  {<<p, Close(p) + 1>> : p \in {q \in opens : Close(q) # -1}}

\* (s.match(/<name[^>]*>/g) || []).length
CountTags(s, names) == GreedyCount(TagMatches(s, names), 0)

----------------------------------------------------------------------------
(* The Angle Block markers and their patterns *)

OpenPrefix == <<"<", ">", "'">>

CloseTag == <<"<", "/", ">">>

Quote == <<"'">>

\* the length the code takes "</>" to have ("Length of </>")
ClosingTagLength == 4

\* the end (exclusive) of the match of /<>'[^']*'/ that starts at p, -1 if none
OpeningEndAt(s, p) ==
    IF ~StartsAt(s, OpenPrefix, p) THEN -1
    ELSE LET q == IndexOf(s, Quote, p + 3)
         IN  IF q = -1 THEN -1 ELSE q + 1

\* s.search(/<>'[^']*'/): the index of the leftmost complete opening marker
SearchOpening(s) ==
    LET hits == {p \in 0..(Len(s) - 4) : OpeningEndAt(s, p) # -1}
    IN  IF hits = {} THEN -1 ELSE SetMin(hits)

\* s.match(/<>'[^']*'/)[0].length
OpeningLength(s) ==
    LET p == SearchOpening(s) IN OpeningEndAt(s, p) - p

\* s.search(/<\/>/)
SearchClosing(s) == IndexOf(s, CloseTag, 0)

\* the last opening marker with a non-empty class list in place of the first
LastAngleBlock(s) ==
    LET hits == {p \in 0..(Len(s) - 5) :
                    OpeningEndAt(s, p) # -1 /\ OpeningEndAt(s, p) > p + 4}
    IN  IF hits = {} THEN -1 ELSE SetMax(hits)

\* the first match of angleBlockRegex, /<>'([^']+)'/g from lastIndex 0: the
\* leftmost opening marker with a non-empty class list; -1 if none
FirstAngleBlock(s) ==
    LET hits == {p \in 0..(Len(s) - 5) :
                    OpeningEndAt(s, p) # -1 /\ OpeningEndAt(s, p) > p + 4}
    IN  IF hits = {} THEN -1 ELSE SetMin(hits)

----------------------------------------------------------------------------
(* findMatchingClosingTag *)

\* the scan index left where the opener was found, its length not added
OpenerAdvanceNoLength(i, openingMatch, length) == i + openingMatch

\* i += openingMatch + (match?.[0]?.length || 0)
OpenerAdvance(i, openingMatch, length) == i + openingMatch + length

\* return i + closingMatch
ClosingIndex(i, closingMatch) == i + closingMatch

\* One iteration of the while loop from scan index i and depth: the new i and
\* depth and how the iteration ends ("continue", "return" with ret, "break").
matcherStep(text, i, depth) ==
    LET remainingText == SubstringFrom(text, i)
        openingMatch  == SearchOpening(remainingText)
        closingMatch  == SearchClosing(remainingText)
        Opened == [i     |-> OpenerAdvance(i, openingMatch, OpeningLength(remainingText)),
                   depth |-> depth + 1, out |-> "continue", ret |-> -1]
        Closed == IF depth - 1 = 0
                  THEN [i |-> i, depth |-> depth - 1, out |-> "return",
                        ret |-> ClosingIndex(i, closingMatch)]
                  ELSE [i |-> i + closingMatch + ClosingTagLength,
                        depth |-> depth - 1, out |-> "continue", ret |-> -1]
    IN  IF openingMatch # -1 /\ closingMatch # -1
        THEN IF openingMatch < closingMatch THEN Opened ELSE Closed
        ELSE IF openingMatch # -1 THEN Opened
        ELSE IF closingMatch # -1 THEN Closed
        ELSE [i |-> i, depth |-> depth, out |-> "break", ret |-> -1]

\* the while condition
matcherRunning(text, i, depth) == i < Len(text) /\ depth > 0

RECURSIVE matcherLoop(_, _, _)
\* the while loop run to its end from scan index i and depth
matcherLoop(text, i, depth) ==
    IF ~matcherRunning(text, i, depth) THEN -1
    ELSE LET s == matcherStep(text, i, depth)
         IN  IF s.out = "return" THEN s.ret
             ELSE IF s.out = "break" THEN -1
             ELSE matcherLoop(text, s.i, s.depth)

findMatchingClosingTag(text, startIndex, openingTag) ==
    matcherLoop(text, startIndex + Len(openingTag), 1)

\* one iteration of the while loop of the call in progress
MatchStep ==
    /\ mpc = "loop"
    /\ matcherRunning(mtext, mi, mdepth)
    /\ LET s == matcherStep(mtext, mi, mdepth)
       IN  /\ mi' = s.i
           /\ mdepth' = s.depth
           /\ mret' = s.ret
           /\ mpc' = IF s.out = "continue" THEN "loop" ELSE "done"
    /\ UNCHANGED <<mtext, mstartIndex, mopeningTag>>
    /\ UNCHANGED <<pagerVars, parserVars>>

\* the while condition fails: return -1
MatchExit ==
    /\ mpc = "loop"
    /\ ~matcherRunning(mtext, mi, mdepth)
    /\ mret' = -1
    /\ mpc' = "done"
    /\ UNCHANGED <<mtext, mstartIndex, mopeningTag, mi, mdepth>>
    /\ UNCHANGED <<pagerVars, parserVars>>

----------------------------------------------------------------------------
(* protectCodeBlocks / restoreCodeBlocks *)

\* the backquote character (U+0060), which a TLA+ string cannot hold
BackquoteChar == "BACKQUOTE"

Backtick == <<BackquoteChar>>

Fence == <<BackquoteChar, BackquoteChar, BackquoteChar>>

InlinePrefix == <<"_", "_", "I", "N", "L", "I", "N", "E", "_", "C", "O", "D", "E", "_">>

FencedPrefix == <<"_", "_", "F", "E", "N", "C", "E", "D", "_", "C", "O", "D", "E", "_">>

TokenSuffix == <<"_", "_">>

DigitChars == <<"0", "1", "2", "3", "4", "5", "6", "7", "8", "9">>

IsDigit(c) == \E d \in 1..10 : DigitChars[d] = c

DigitValue(c) == (CHOOSE d \in 1..10 : DigitChars[d] = c) - 1

RECURSIVE Digits(_)
\* String(n): the decimal digits of n
Digits(n) ==
    IF n < 10 THEN <<DigitChars[n + 1]>>
    ELSE Digits(n \div 10) \o <<DigitChars[(n % 10) + 1]>>

RECURSIVE ParseInt(_)
\* parseInt(ds) for a string of digits
ParseInt(ds) ==
    IF Len(ds) = 1 THEN DigitValue(ds[1])
    ELSE 10 * ParseInt(SubSeq(ds, 1, Len(ds) - 1)) + DigitValue(ds[Len(ds)])

\* the template strings __INLINE_CODE_${n}__ and __FENCED_CODE_${n}__
Placeholder(prefix, n) == prefix \o Digits(n) \o TokenSuffix

\* the matches of the inline pattern (backquote, one or more characters that
\* are not a backquote, backquote) in s
InlineCodeCands(s) ==
    LET Close(p) == IndexOf(s, Backtick, p + 2)
    IN  {<<p, Close(p) + 1>> :
            p \in {q \in 0..(Len(s) - 3) :
                      s[q + 1] = BackquoteChar /\ s[q + 2] # BackquoteChar /\ Close(q) # -1}}

\* the matches of the fenced pattern (three backquotes, the shortest text,
\* three backquotes) in s
FencedCodeCands(s) ==
    LET Close(p) == IndexOf(s, Fence, p + 3)
    IN  {<<p, Close(p) + 3>> :
            p \in {q \in 0..(Len(s) - 6) : StartsAt(s, Fence, q) /\ Close(q) # -1}}

\* the texts of the matches ms of s
MatchTexts(s, ms) == [k \in 1..Len(ms) |-> Substring(s, ms[k][1], ms[k][2])]

protectCodeBlocks(s) ==
    LET inl   == GreedyMatches(InlineCodeCands(s), 0)
        s1    == Splice(s, inl, [k \in 1..Len(inl) |-> Placeholder(InlinePrefix, k - 1)], 0)
        fen   == GreedyMatches(FencedCodeCands(s1), 0)
        s2    == Splice(s1, fen,
                        [k \in 1..Len(fen) |-> Placeholder(FencedPrefix, Len(inl) + k - 1)], 0)
    IN  [protectedText |-> s2, codeBlocks |-> MatchTexts(s, inl) \o MatchTexts(s1, fen)]

\* the end (exclusive) of the digits that start at index p of s
DigitsEnd(s, p) ==
    LET stops == {q \in p..(Len(s) - 1) : ~IsDigit(s[q + 1])}
    IN  IF stops = {} THEN Len(s) ELSE SetMin(stops)

\* the matches of /__INLINE_CODE_(\d+)__/ (or FENCED) in s
TokenCands(s, prefix) ==
    LET DEnd(p) == DigitsEnd(s, p + Len(prefix))
    IN  {<<p, DEnd(p) + 2>> :
            p \in {q \in 0..(Len(s) - Len(prefix) - 3) :
                      /\ StartsAt(s, prefix, q)
                      /\ DEnd(q) > q + Len(prefix)
                      /\ StartsAt(s, TokenSuffix, DEnd(q))}}

\* codeBlocks[parseInt(index)] || match
TokenValue(s, prefix, codeBlocks, m) ==
    LET index == ParseInt(Substring(s, m[1] + Len(prefix), m[2] - 2))
    IN  IF index < Len(codeBlocks) /\ codeBlocks[index + 1] # <<>>
        THEN codeBlocks[index + 1]
        ELSE Substring(s, m[1], m[2])

\* one of the two replace calls of restoreCodeBlocks
RestoreTokens(s, prefix, codeBlocks) ==
    LET ms == GreedyMatches(TokenCands(s, prefix), 0)
    IN  Splice(s, ms, [k \in 1..Len(ms) |-> TokenValue(s, prefix, codeBlocks, ms[k])], 0)

restoreCodeBlocks(s, codeBlocks) ==
    RestoreTokens(RestoreTokens(s, InlinePrefix, codeBlocks), FencedPrefix, codeBlocks)

----------------------------------------------------------------------------
(* marked.parse, the Markdown Bridge: an external library.  All the model  *)
(* keeps of it is that blank text renders to nothing and any other text to *)
(* markup that wraps it; what it is called with is recorded in bridgeLog.   *)

Marked(s) ==
    IF IsBlank(s) THEN <<>>
    ELSE <<"<", "p", ">">> \o Trim(s) \o <<"<", "/", "p", ">", "\n">>

----------------------------------------------------------------------------
(* processAllBlocks / processAngleBlocks *)

maxIterations == 20

\* result.includes("<>'")
HasOpenPrefix(s) == IndexOf(s, OpenPrefix, 0) # -1

\* the dangling-opener pattern with a lookahead that stops at the next opening
\* marker or the end only
DanglingCandsToOpener(s) ==
    LET Stop(e) ==
            LET stops == {r \in e..(Len(s) - 3) : StartsAt(s, OpenPrefix, r)}
            IN  IF stops = {} THEN Len(s) ELSE SetMin(stops)
    IN  {<<p, Stop(OpeningEndAt(s, p))>> :
            p \in {q \in 0..(Len(s) - 4) : OpeningEndAt(s, q) # -1}}

\* the matches of /<>'[^']*'[\s\S]*?(?=<>'|<\/>|$)/ in s
DanglingCands(s) ==
    LET Stop(e) ==
            LET stops == {r \in e..(Len(s) - 3) :
                            StartsAt(s, OpenPrefix, r) \/ StartsAt(s, CloseTag, r)}
            IN  IF stops = {} THEN Len(s) ELSE SetMin(stops)
    IN  {<<p, Stop(OpeningEndAt(s, p))>> :
            p \in {q \in 0..(Len(s) - 4) : OpeningEndAt(s, q) # -1}}

\* the matches of /<\/>/ in s
CloserCands(s) == {<<p, p + 3>> : p \in {q \in 0..(Len(s) - 3) : StartsAt(s, CloseTag, q)}}

\* s.replace(pattern, "") for the pattern whose matches are cands
RemoveAll(s, cands) ==
    LET ms == GreedyMatches(cands, 0)
    IN  Splice(s, ms, [k \in 1..Len(ms) |-> <<>>], 0)

\* the two replace calls of the cleanup of processAllBlocks
removeUnprocessed(s) ==
    LET stripped == RemoveAll(s, DanglingCands(s))
    IN  RemoveAll(stripped, CloserCands(stripped))

\* the state of a new invocation of processAllBlocks(s), at its loop
NewFrame(s) ==
    LET guarded == protectCodeBlocks(s)
    IN  [text        |-> s,
         result      |-> guarded.protectedText,
         codeBlocks  |-> guarded.codeBlocks,
         hasChanges  |-> TRUE,
         iterations  |-> 0,
         fpc         |-> "loop",
         warned      |-> FALSE,
         match1      |-> <<>>,
         classes     |-> <<>>,
         beforeBlock |-> <<>>,
         afterBlock  |-> <<>>]

Top == stack[Len(stack)]

\* the loop condition without its ceiling
LoopRunningNoCeiling(f) == f.hasChanges

\* while (hasChanges && iterations < maxIterations)
LoopRunning(f) == f.hasChanges /\ f.iterations < maxIterations

\* the locals of processAngleBlocks(s) up to the search for the closing tag
AngleMatch(s) ==
    LET startIndex == FirstAngleBlock(s)
        fullMatch  == IF startIndex = -1 THEN <<>>
                      ELSE Substring(s, startIndex, OpeningEndAt(s, startIndex))
    IN  [startIndex   |-> startIndex,
         fullMatch    |-> fullMatch,
         closingIndex |-> IF startIndex = -1 THEN -1
                          ELSE findMatchingClosingTag(s, startIndex, fullMatch)]

\* the class list emitted as it stands between the quotes
ClassesVerbatim(match1) == match1

\* match[1].trim()
ClassesOf(match1) == Trim(match1)

\* contentStart = startIndex + fullMatch.length
ContentStart(startIndex, fullMatch) == startIndex + Len(fullMatch)

\* endIndex = closingIndex + 4
EndIndex(closingIndex) == closingIndex + ClosingTagLength

DivOpenPrefix == <<"<", "d", "i", "v", " ", "c", "l", "a", "s", "s", "=", "\"">>

DivTagStart == <<"<", "d", "i", "v">>

DivClose == <<"<", "/", "d", "i", "v", ">">>

\* the template string <div class="${classes}">${parsedContent}</div>
DivOf(classes, parsedContent) ==
    DivOpenPrefix \o classes \o <<"\"", ">">> \o parsedContent \o DivClose

\* parse: the blank-text return, or the call of processAllBlocks(text)
ParseBegin ==
    /\ pc = "start"
    /\ IF IsBlank(ptext)
       THEN /\ out' = <<>>
            /\ pc' = "done"
            /\ UNCHANGED stack
       ELSE /\ stack' = <<NewFrame(ptext)>>
            /\ pc' = "blocks"
            /\ UNCHANGED out
    /\ UNCHANGED <<ptext, processed, mdI, mdResult, bridgeLog, containers, diagnostics>>
    /\ steps' = steps + 1
    /\ UNCHANGED <<pagerVars, matcherVars>>

\* a pass in which processAngleBlocks returns its text unchanged: no opening
\* marker matches, or the first one has no closing tag
PassUnchanged ==
    /\ pc = "blocks"
    /\ Top.fpc = "loop"
    /\ LoopRunning(Top)
    /\ AngleMatch(Top.result).closingIndex = -1
    /\ stack' = [stack EXCEPT ![Len(stack)] =
                    [@ EXCEPT !.iterations = @ + 1, !.hasChanges = FALSE]]
    /\ diagnostics' = IF AngleMatch(Top.result).startIndex = -1 THEN diagnostics
                      ELSE Append(diagnostics, "not properly closed")
    /\ UNCHANGED <<ptext, processed, mdI, mdResult, out, bridgeLog, containers, pc>>
    /\ steps' = steps + 1
    /\ UNCHANGED <<pagerVars, matcherVars>>

\* a pass in which processAngleBlocks finds the closing tag of the first
\* opening marker: up to its call of processAllBlocks(actualContent)
PassResolve ==
    /\ pc = "blocks"
    /\ Top.fpc = "loop"
    /\ LoopRunning(Top)
    /\ LET s  == Top.result
           am == AngleMatch(s)
           match1 == Substring(am.fullMatch, 3, Len(am.fullMatch) - 1)
           actualContent ==
               Substring(s, ContentStart(am.startIndex, am.fullMatch), am.closingIndex)
       IN  /\ am.closingIndex # -1
           /\ stack' = [stack EXCEPT ![Len(stack)] =
                           [@ EXCEPT !.iterations  = @ + 1,
                                     !.hasChanges  = FALSE,
                                     !.fpc         = "call",
                                     !.match1      = match1,
                                     !.classes     = ClassesOf(match1),
                                     !.beforeBlock = Substring(s, 0, am.startIndex),
                                     !.afterBlock  = SubstringFrom(s, EndIndex(am.closingIndex))]]
                       \o <<NewFrame(actualContent)>>
    /\ UNCHANGED <<ptext, processed, mdI, mdResult, out, bridgeLog, containers, diagnostics, pc>>
    /\ steps' = steps + 1
    /\ UNCHANGED <<pagerVars, matcherVars>>

\* the loop has ended and opening-marker syntax remains: the cleanup
Recover ==
    /\ pc = "blocks"
    /\ Top.fpc = "loop"
    /\ ~LoopRunning(Top)
    /\ HasOpenPrefix(Top.result)
    /\ stack' = [stack EXCEPT ![Len(stack)] =
                    [@ EXCEPT !.result = removeUnprocessed(@), !.fpc = "restore",
                              !.warned = TRUE]]
    /\ diagnostics' = Append(diagnostics, "removing unprocessed")
    /\ UNCHANGED <<ptext, processed, mdI, mdResult, out, bridgeLog, containers, pc>>
    /\ steps' = steps + 1
    /\ UNCHANGED <<pagerVars, matcherVars>>

\* the loop has ended and no opening-marker syntax remains: no cleanup
NoRecover ==
    /\ pc = "blocks"
    /\ Top.fpc = "loop"
    /\ ~LoopRunning(Top)
    /\ ~HasOpenPrefix(Top.result)
    /\ stack' = [stack EXCEPT ![Len(stack)] = [@ EXCEPT !.fpc = "restore"]]
    /\ UNCHANGED <<ptext, processed, mdI, mdResult, out, bridgeLog, containers, diagnostics, pc>>
    /\ steps' = steps + 1
    /\ UNCHANGED <<pagerVars, matcherVars>>

\* a nested processAllBlocks restores its code blocks and returns to
\* processAngleBlocks, which renders the content and splices the container in
ReturnToPass ==
    /\ pc = "blocks"
    /\ Top.fpc = "restore"
    /\ Len(stack) > 1
    /\ LET processedContent == restoreCodeBlocks(Top.result, Top.codeBlocks)
           parsedContent    == Marked(processedContent)
           caller           == stack[Len(stack) - 1]
           div              == DivOf(caller.classes, parsedContent)
           angleProcessed   == caller.beforeBlock \o div \o caller.afterBlock
       IN  /\ stack' = SubSeq(stack, 1, Len(stack) - 2) \o
                       << [caller EXCEPT !.hasChanges = (angleProcessed # caller.result),
                                         !.result     = angleProcessed,
                                         !.fpc        = "loop"] >>
           /\ bridgeLog' = Append(bridgeLog, processedContent)
           /\ containers' = Append(containers,
                                   [match1 |-> caller.match1, html |-> div,
                                    content |-> processedContent])
    /\ UNCHANGED <<ptext, processed, mdI, mdResult, out, diagnostics, pc>>
    /\ steps' = steps + 1
    /\ UNCHANGED <<pagerVars, matcherVars>>

\* the outermost processAllBlocks restores its code blocks and returns to parse
ReturnToParse ==
    /\ pc = "blocks"
    /\ Top.fpc = "restore"
    /\ Len(stack) = 1
    /\ processed' = restoreCodeBlocks(Top.result, Top.codeBlocks)
    /\ stack' = <<>>
    /\ mdI' = 0
    /\ mdResult' = <<>>
    /\ pc' = "markdown"
    /\ UNCHANGED <<ptext, out, bridgeLog, containers, diagnostics>>
    /\ steps' = steps + 1
    /\ UNCHANGED <<pagerVars, matcherVars>>

----------------------------------------------------------------------------
(* splitByDivsAndProcessMarkdown / findMatchingDivEnd *)

DivCloseLength == 6

DivTagStartLength == 4

RECURSIVE divLoop(_, _, _)
\* the while loop of findMatchingDivEnd from scan index i and depth
divLoop(s, i, depth) ==
    IF ~(i < Len(s)) THEN -1
    ELSE LET divStart == IndexOf(s, DivTagStart, i)
             divEnd   == IndexOf(s, DivClose, i)
         IN  IF divStart = -1 /\ divEnd = -1 THEN -1
             ELSE IF divStart # -1 /\ (divEnd = -1 \/ divStart < divEnd)
                  THEN divLoop(s, divStart + DivTagStartLength, depth + 1)
             ELSE IF divEnd # -1
                  THEN IF depth - 1 = 0 THEN divEnd
                       ELSE divLoop(s, divEnd + DivCloseLength, depth - 1)
             ELSE -1

findMatchingDivEnd(s, startIndex) == divLoop(s, startIndex, 0)

\* what "if (part.trim()) result += marked.parse(part)" sends to the Bridge
BridgeCalls(part) == IF IsBlank(part) THEN <<>> ELSE <<part>>

\* One iteration of the while loop of splitByDivsAndProcessMarkdown from
\* index i: the new i, what is appended to result, the Bridge calls made and
\* whether the loop is left by break.
markdownStep(s, i) ==
    LET divStart == IndexOf(s, DivOpenPrefix, i) IN
    IF divStart = -1
    THEN [i |-> i, add |-> Marked(SubstringFrom(s, i)),
          calls |-> BridgeCalls(SubstringFrom(s, i)), brk |-> TRUE]
    ELSE LET beforeDiv == Substring(s, i, divStart)
             divEnd    == findMatchingDivEnd(s, divStart)
         IN  IF divEnd = -1
             THEN [i |-> i,
                   add |-> Marked(beforeDiv) \o Marked(SubstringFrom(s, divStart)),
                   calls |-> BridgeCalls(beforeDiv) \o BridgeCalls(SubstringFrom(s, divStart)),
                   brk |-> TRUE]
             ELSE [i |-> divEnd + DivCloseLength,
                   add |-> Marked(beforeDiv) \o Substring(s, divStart, divEnd + DivCloseLength),
                   calls |-> BridgeCalls(beforeDiv), brk |-> FALSE]

\* one iteration of the while loop; leaving it by break returns result
MarkdownStep ==
    /\ pc = "markdown"
    /\ mdI < Len(processed)
    /\ LET st == markdownStep(processed, mdI)
       IN  /\ mdI' = st.i
           /\ mdResult' = mdResult \o st.add
           /\ bridgeLog' = bridgeLog \o st.calls
           /\ IF st.brk
              THEN out' = mdResult \o st.add /\ pc' = "done"
              ELSE UNCHANGED <<out, pc>>
    /\ UNCHANGED <<ptext, stack, processed, containers, diagnostics>>
    /\ steps' = steps + 1
    /\ UNCHANGED <<pagerVars, matcherVars>>

\* the while condition fails: result is returned through parse
MarkdownReturn ==
    /\ pc = "markdown"
    /\ ~(mdI < Len(processed))
    /\ out' = mdResult
    /\ pc' = "done"
    /\ UNCHANGED <<ptext, stack, processed, mdI, mdResult, bridgeLog, containers, diagnostics>>
    /\ steps' = steps + 1
    /\ UNCHANGED <<pagerVars, matcherVars>>

----------------------------------------------------------------------------
(* estimateContentHeight *)

HeadingNames == {<<"h", d>> : d \in {"1", "2", "3", "4", "5", "6"}}

HeadingHeight == 40

ParagraphHeight == 60

ListHeight == 100

ImageHeight == 200

CodeBlockHeight == 150

BlockquoteHeight == 80

BaseHeight == 200

estimateContentHeight(s) ==
      CountTags(s, HeadingNames) * HeadingHeight
    + CountTags(s, {<<"p">>}) * ParagraphHeight
    + CountTags(s, {<<"u", "l">>, <<"o", "l">>}) * ListHeight
    + CountTags(s, {<<"i", "m", "g">>}) * ImageHeight
    + CountTags(s, {<<"p", "r", "e">>}) * CodeBlockHeight
    + CountTags(s, {<<"b", "l", "o", "c", "k", "q", "u", "o", "t", "e">>}) * BlockquoteHeight
    + BaseHeight

----------------------------------------------------------------------------
(* splitIntoPages *)

DefaultPageHeight == 1123

\* pagesNeeded with the quotient rounded down instead of up
PagesNeededFloor(s, ph) == Max2(1, estimateContentHeight(s) \div ph)

\* Math.max(1, Math.ceil(estimatedContentHeight / pageHeight))
PagesNeededFor(s, ph) == Max2(1, CeilDiv(estimateContentHeight(s), ph))

\* Math.ceil(html.length / pagesNeeded)
ContentPerPageFor(s, n) == CeilDiv(Len(s), n)

\* the break point searched in one page's naive slice
breakPoint(pageContent) ==
    SetMax({ LastIndexOf(pageContent, <<"<", "/">>),
             LastIndexOf(pageContent, <<"<", "/", "p", ">">>),
             LastIndexOf(pageContent, <<"<", "/", "h">>),
             LastIndexOf(pageContent, <<"<", "/", "u", "l", ">">>),
             LastIndexOf(pageContent, <<"<", "/", "o", "l", ">">>) })

\* breakPoint > contentPerPage * 0.7
BeyondThreshold(bp, cpp) == 10 * bp > 7 * cpp

\* the number of characters kept when the slice is cut at a break point
SnapLength(bp) == bp + 4

\* the body of the for loop: the content pushed for page i
pageContentAt(s, n, cpp, i) ==
    LET start == i * cpp
        end   == Min2(start + cpp, Len(s))
        naive == Substring(s, start, end)
        bp    == breakPoint(naive)
    IN  IF i < n - 1 /\ end < Len(s) /\ BeyondThreshold(bp, cpp)
        THEN Substring(naive, 0, SnapLength(bp))
        ELSE naive

\* the early returns of splitIntoPages, and the entry into its loop
SplitBegin ==
    /\ ppc = "start"
    /\ IF IsBlank(html)
       THEN /\ pages' = << <<>> >>
            /\ ppc' = "done"
            /\ UNCHANGED <<pagesNeeded, contentPerPage>>
       ELSE LET n == PagesNeededFor(html, pageHeight)
            IN  /\ pagesNeeded' = n
                /\ contentPerPage' = ContentPerPageFor(html, n)
                /\ IF n = 1
                   THEN pages' = <<html>> /\ ppc' = "done"
                   ELSE pages' = <<>> /\ ppc' = "loop"
    /\ pi' = 0
    /\ UNCHANGED <<html, elems, pageHeight>>
    /\ UNCHANGED <<matcherVars, parserVars>>

\* one iteration of the for loop
SplitPage ==
    /\ ppc = "loop"
    /\ pi < pagesNeeded
    /\ pages' = Append(pages, pageContentAt(html, pagesNeeded, contentPerPage, pi))
    /\ pi' = pi + 1
    /\ UNCHANGED <<html, elems, pageHeight, pagesNeeded, contentPerPage, ppc>>
    /\ UNCHANGED <<matcherVars, parserVars>>

\* the loop's exit and the return of pages
SplitReturn ==
    /\ ppc = "loop"
    /\ pi >= pagesNeeded
    /\ ppc' = "done"
    /\ UNCHANGED <<html, elems, pageHeight, pages, pagesNeeded, contentPerPage, pi>>
    /\ UNCHANGED <<matcherVars, parserVars>>

\* getPageCount: the length of what splitIntoPages returned
getPageCount == Len(pages)

----------------------------------------------------------------------------
(* The html documents the paginator is run on: renderings of up to         *)
(* MaxElems elements, and the page heights                                  *)

MaxElems == 3

ElemKinds == {"h", "p", "ul", "img", "pre", "bq", "ws"}

Render(kind) ==
    CASE kind = "h"   -> <<"<", "h", "1", ">", "T", "i", "t", "l", "e", "<", "/", "h", "1", ">">>
      [] kind = "p"   -> <<"<", "p", ">", "s", "o", "m", "e", " ", "t", "e", "x", "t", "<", "/", "p", ">", "\n">>
      [] kind = "ul"  -> <<"<", "u", "l", ">", "<", "l", "i", ">", "x", "<", "/", "l", "i", ">", "<", "/", "u", "l", ">">>
      [] kind = "img" -> <<"<", "i", "m", "g", " ", "s", "r", "c", "=", "u", ">">>
      [] kind = "pre" -> <<"<", "p", "r", "e", ">", "<", "c", "o", "d", "e", ">", "c",
                           "<", "/", "c", "o", "d", "e", ">", "<", "/", "p", "r", "e", ">">>
      [] kind = "bq"  -> <<"<", "b", "l", "o", "c", "k", "q", "u", "o", "t", "e", ">", "q",
                           "<", "/", "b", "l", "o", "c", "k", "q", "u", "o", "t", "e", ">">>
      [] kind = "ws"  -> <<" ", "\n">>

RECURSIVE RenderAll(_)
RenderAll(ks) == IF ks = <<>> THEN <<>> ELSE Render(Head(ks)) \o RenderAll(Tail(ks))

ElemSeqs == UNION {[1..n -> ElemKinds] : n \in 0..MaxElems}

PageHeights == {100, 130, 200, DefaultPageHeight}

\* no call of splitIntoPages in progress
PagerIdle ==
    /\ html = <<>>
    /\ elems = <<>>
    /\ pageHeight = DefaultPageHeight
    /\ pages = <<>>
    /\ pagesNeeded = 0
    /\ contentPerPage = 0
    /\ pi = 0
    /\ ppc = "idle"

\* no call of findMatchingClosingTag in progress
MatcherIdle ==
    /\ mtext = <<>>
    /\ mstartIndex = 0
    /\ mopeningTag = <<>>
    /\ mi = 0
    /\ mdepth = 0
    /\ mret = -1
    /\ mpc = "idle"

\* no call of parse in progress
ParserIdle ==
    /\ ptext = <<>>
    /\ stack = <<>>
    /\ processed = <<>>
    /\ mdI = 0
    /\ mdResult = <<>>
    /\ out = <<>>
    /\ bridgeLog = <<>>
    /\ containers = <<>>
    /\ diagnostics = <<>>
    /\ steps = 0
    /\ pc = "idle"

InitPages ==
    /\ MatcherIdle
    /\ ParserIdle
    /\ elems \in ElemSeqs
    /\ html = RenderAll(elems)
    /\ pageHeight \in PageHeights
    /\ pages = <<>>
    /\ pagesNeeded = 0
    /\ contentPerPage = 0
    /\ pi = 0
    /\ ppc = "start"

NextPages == SplitBegin \/ SplitPage \/ SplitReturn

SpecPages == InitPages /\ [][NextPages]_vars

----------------------------------------------------------------------------
(* The texts the matcher is run on: up to MaxChunks pieces of MarkOver       *)
(* source, and the nesting example of the specification                     *)

MaxChunks == 5

ChunkKinds == {"OA", "OB", "CL", "X", "OP", "Q"}

Chunk(kind) ==
    CASE kind = "OA" -> <<"<", ">", "'", "a", "'">>
      [] kind = "OB" -> <<"<", ">", "'", "b", "'">>
      [] kind = "CL" -> <<"<", "/", ">">>
      [] kind = "X"  -> <<"X">>
      [] kind = "OP" -> <<"<", ">", "'">>
      [] kind = "Q"  -> <<"'">>

RECURSIVE ChunkText(_)
ChunkText(ks) == IF ks = <<>> THEN <<>> ELSE Chunk(Head(ks)) \o ChunkText(Tail(ks))

\* <>'a' X <>'b' Y </> Z </>
ExampleNested ==
    <<"<", ">", "'", "a", "'", " ", "X", " ", "<", ">", "'", "b", "'", " ", "Y", " ",
      "<", "/", ">", " ", "Z", " ", "<", "/", ">">>

\* the content of the outer block of ExampleNested:  X <>'b' Y </> Z
ExampleInner == Substring(ExampleNested, 5, 22)

MatcherInputs ==
    {ChunkText(ks) : ks \in UNION {[1..n -> ChunkKinds] : n \in 1..MaxChunks}}
        \cup {ExampleNested, ExampleInner}

\* findMatchingClosingTag as processAngleBlocks calls it: on the first match
\* of angleBlockRegex in the text
InitMatch ==
    /\ PagerIdle
    /\ ParserIdle
    /\ mtext \in MatcherInputs
    /\ FirstAngleBlock(mtext) # -1
    /\ mstartIndex = FirstAngleBlock(mtext)
    /\ mopeningTag = Substring(mtext, mstartIndex, OpeningEndAt(mtext, mstartIndex))
    /\ mi = mstartIndex + Len(mopeningTag)
    /\ mdepth = 1
    /\ mret = -1
    /\ mpc = "loop"

NextMatch == MatchStep \/ MatchExit

SpecMatch == InitMatch /\ [][NextMatch]_vars

----------------------------------------------------------------------------
(* The texts parse is run on: up to MaxParseChunks pieces of MarkOver source *)
(* and Markdown, and a few longer documents                                  *)

MaxParseChunks == 4

ParseChunkKinds == {"OS", "CL", "X", "BT", "CODE", "PH", "DIV", "LT", "GB"}

ParseChunk(kind) ==
    CASE kind = "OS"   -> <<"<", ">", "'", " ", "b", " ", " ", "b", " ", "'">>
      [] kind = "CL"   -> <<"<", "/", ">">>
      [] kind = "X"    -> <<"X">>
      [] kind = "BT"   -> Backtick
      [] kind = "CODE" -> Backtick \o <<"<", ">", "'", "c", "'", "<", "/", ">">> \o Backtick
      [] kind = "PH"   -> Placeholder(InlinePrefix, 0)
      [] kind = "DIV"  -> DivOpenPrefix \o <<"c", "\"", ">", "d">> \o DivClose
      [] kind = "LT"   -> <<"<">>
      [] kind = "GB"   -> <<">", "'", "b", "'">>

RECURSIVE ParseChunkText(_)
ParseChunkText(ks) ==
    IF ks = <<>> THEN <<>> ELSE ParseChunk(Head(ks)) \o ParseChunkText(Tail(ks))

\* <>'a' X
ExampleUnterminated == <<"<", ">", "'", "a", "'", " ", "X">>

\* a fenced code span whose body is an opening marker
ExampleFenced == Fence \o <<"\n", "<", ">", "'", "a", "'", "\n">> \o Fence

SiblingCount == 21

RECURSIVE Repeat(_, _)
Repeat(s, n) == IF n = 0 THEN <<>> ELSE s \o Repeat(s, n - 1)

\* SiblingCount blocks <>'a'</> one after the other, each on its own line
ExampleSiblings == Repeat(<<"<", ">", "'", "a", "'", "<", "/", ">", "\n">>, SiblingCount)

ParseInputs ==
    {ParseChunkText(ks) : ks \in UNION {[1..n -> ParseChunkKinds] : n \in 0..MaxParseChunks}}
        \cup {ExampleNested, ExampleUnterminated, ExampleFenced, ExampleSiblings}

InitParse ==
    /\ PagerIdle
    /\ MatcherIdle
    /\ ptext \in ParseInputs
    /\ stack = <<>>
    /\ processed = <<>>
    /\ mdI = 0
    /\ mdResult = <<>>
    /\ out = <<>>
    /\ bridgeLog = <<>>
    /\ containers = <<>>
    /\ diagnostics = <<>>
    /\ steps = 0
    /\ pc = "start"

NextParse ==
    \/ ParseBegin
    \/ PassUnchanged
    \/ PassResolve
    \/ Recover
    \/ NoRecover
    \/ ReturnToPass
    \/ ReturnToParse
    \/ MarkdownStep
    \/ MarkdownReturn

SpecParse == InitParse /\ [][NextParse]_vars


----------------------------------------------------------------------------
(* Claims about the matcher *)

RECURSIVE MarkersFrom(_, _)
\* The markers of text from index pos on, left to right, each <<kind, start>>:
\* a complete opening marker ("open") or a closing marker ("close"), the
\* next one read after the end of the one before.
MarkersFrom(text, pos) ==
    LET opens  == {p \in pos..(Len(text) - 4) : OpeningEndAt(text, p) # -1}
        closes == {p \in pos..(Len(text) - 3) : StartsAt(text, CloseTag, p)}
    IN  IF opens \cup closes = {} THEN <<>>
        ELSE LET m == SetMin(opens \cup closes)
             IN  IF m \in opens
                 THEN <<(<<"open", m>>)>> \o MarkersFrom(text, OpeningEndAt(text, m))
                 ELSE <<(<<"close", m>>)>> \o MarkersFrom(text, m + 3)

\* the depth after the first k markers of ms, starting from 1
DepthAfter(ms, k) ==
    1 + Cardinality({j \in 1..k : ms[j][1] = "open"})
      - Cardinality({j \in 1..k : ms[j][1] = "close"})

\* the start of the first marker after which the depth is 0, -1 if none
PairedCloser(text, pos) ==
    LET ms   == MarkersFrom(text, pos)
        zero == {k \in 1..Len(ms) : DepthAfter(ms, k) = 0}
    IN  IF zero = {} THEN -1 ELSE ms[SetMin(zero)][2]

\* C2: from depth 1 just after the opener, +1 for each later complete opening
\* marker and -1 for each later closing marker, left to right, the matcher
\* returns the start of the first closing marker at which the depth is 0, and
\* -1 if there is none; in <>'a' X <>'b' Y </> Z </> opener a is paired with
\* the last closer and opener b (first opener of the inner content) with the
\* first.
C2_MatcherPairs ==
    mpc = "done" =>
        /\ mret = PairedCloser(mtext, mstartIndex + Len(mopeningTag))
        /\ mtext = ExampleNested => mret = 22
        /\ mtext = ExampleInner => mret = 11

\* C10: every loop iteration that neither returns nor breaks leaves the scan
\* index strictly greater than it found it.
C10_ScanAdvances == [][(mpc = "loop" /\ mpc' = "loop") => mi' > mi]_vars

\* the scan has just stepped over an opening marker with an empty class list
C10_Witness ==
    /\ mpc = "loop"
    /\ mdepth >= 2
    /\ mi >= mstartIndex + Len(mopeningTag) + 4
    /\ Substring(mtext, mi - 4, mi) = <<"<", ">", "'", "'">>

----------------------------------------------------------------------------
(* Claims about parse *)

\* whether s holds text that restoreCodeBlocks takes for a placeholder token
HasToken(s) == TokenCands(s, InlinePrefix) \cup TokenCands(s, FencedPrefix) # {}

\* whether s holds a backquote
HasBackquote(s) == IndexOf(s, Backtick, 0) # -1

\* C3: when an opening marker is left without a closing marker, what
\* processAllBlocks produces (before the code spans are restored into it),
\* and so the output of parse, holds no complete opening marker.
C3_NoOpenerLeft ==
    /\ \A k \in 1..Len(stack) :
          (stack[k].fpc = "restore" /\ stack[k].warned)
              => SearchOpening(stack[k].result) = -1
    /\ (pc = "done" /\ ~HasBackquote(ptext) /\ diagnostics # <<>>)
          => SearchOpening(out) = -1

\* C4: for non-blank text with no opening and no closing marker, parse
\* returns what the Bridge returns for the whole text, called once with it.
C4_NoOpEquivalence ==
    (pc = "done" /\ ~IsBlank(ptext) /\ ~HasOpenPrefix(ptext) /\ SearchClosing(ptext) = -1)
        => (out = Marked(ptext) /\ bridgeLog = <<ptext>>)

\* C5: a code span is handed to the Bridge as its original text: no call of
\* the Bridge holds a placeholder token (the document itself holding none).
C5_BridgeGetsCodeText ==
    ~HasToken(ptext) => \A k \in 1..Len(bridgeLog) : ~HasToken(bridgeLog[k])

\* C7 as stated: the class attribute of an emitted container is exactly the
\* text between the quotes of its opening marker.
C7_ClassVerbatim ==
    \A k \in 1..Len(containers) :
        StartsAt(containers[k].html,
                 DivOpenPrefix \o containers[k].match1 \o <<"\"", ">">>, 0)

\* C7 as amended: the class attribute is the text between the quotes without
\* its leading and trailing whitespace: a contiguous part of it, with only
\* whitespace dropped before and after, so interior whitespace is kept and no
\* token is reordered or dropped.
C7_ClassTrimmed ==
    \A k \in 1..Len(containers) :
        LET raw == containers[k].match1 IN
        \E a, b \in 0..Len(raw) :
            /\ a + b <= Len(raw)
            /\ \A j \in 1..a : IsSpace(raw[j])
            /\ \A j \in (Len(raw) - b + 1)..Len(raw) : IsSpace(raw[j])
            /\ LET kept == Substring(raw, a, Len(raw) - b)
               IN  /\ kept # <<>> => (~IsSpace(kept[1]) /\ ~IsSpace(kept[Len(kept)]))
                   /\ StartsAt(containers[k].html,
                               DivOpenPrefix \o kept \o <<"\"", ">">>, 0)

\* a container was emitted for an opener whose class list has leading,
\* interior and trailing whitespace and a repeated token
C7_Witness ==
    \E k \in 1..Len(containers) :
        containers[k].match1 = <<" ", "b", " ", " ", "b", " ">>

\* every invocation of processAllBlocks has run at most maxIterations passes
PassesBounded == \A k \in 1..Len(stack) : stack[k].iterations <= maxIterations

\* the steps a call of parse on a text of n characters may take
StepBound(n) == 2 * n + 4

\* a call of parse that has not returned is at a position with a next step,
\* and it has taken no more steps than the length of its input allows
Progresses ==
    /\ steps <= StepBound(Len(ptext))
    /\ pc \in {"start", "blocks", "markdown", "done"}
    /\ pc = "blocks" => Len(stack) >= 1 /\ Top.fpc \in {"loop", "restore"}

\* C9 as stated: parse terminates for every input: at most 20 passes per
\* invocation of processAllBlocks, and every recursive invocation is on
\* content strictly shorter than the text (the argument) of the invocation
\* that made it.
C9_ShorterThanText ==
    /\ PassesBounded
    /\ \A k \in 2..Len(stack) : Len(stack[k].text) < Len(stack[k - 1].text)
    /\ Progresses

\* C9: parse terminates for every input: at most 20 passes per invocation of
\* processAllBlocks, every recursive invocation is on content strictly
\* shorter than the working text its caller was scanning when it made the
\* call (the caller's text with its code spans replaced by placeholders and
\* its earlier blocks resolved), and the call never stops short of its return
\* and returns within a number of steps bounded by the length of the input.
C9_ParseTerminates ==
    /\ PassesBounded
    /\ \A k \in 2..Len(stack) : Len(stack[k].text) < Len(stack[k - 1].result)
    /\ Progresses

\* an invocation has used all maxIterations passes while a recursive
\* invocation it made is in progress
C9_Witness ==
    /\ Len(stack) >= 2
    /\ stack[1].iterations = maxIterations

----------------------------------------------------------------------------
(* Claims about the paginator *)

\* the number of elements of one kind in the document html was rendered from
NumElems(kind) == Cardinality({k \in 1..Len(elems) : elems[k] = kind})

\* C1: the fragments splitIntoPages returns, concatenated in order, are html
\* character for character, for every html and page height.
C1_PageRoundTrip == ppc = "done" => Concat(pages) = html

\* C6 as stated: for every html and page height splitIntoPages returns exactly
\* max(1, ceil(estimateHeight(html) / pageUnit)) fragments, n being that number
\* when it is the least n >= 1 with n * pageUnit >= estimateHeight(html).
C6_PageCountAnyHtml ==
    ppc = "done" =>
        LET e == estimateContentHeight(html)
            n == getPageCount
        IN  /\ n >= 1
            /\ n * pageHeight >= e
            /\ n > 1 => (n - 1) * pageHeight < e

\* C6 as amended: for html that is not whitespace-only the page count is
\* max(1, ceil(estimateHeight(html) / pageUnit)), hence 1 when the estimate is
\* at most pageUnit and 2 when it is twice pageUnit; for whitespace-only html
\* exactly one (empty) fragment is returned whatever the page height.
C6_PageCount ==
    ppc = "done" =>
        LET e == estimateContentHeight(html)
            n == getPageCount
        IN  /\ n >= 1
            /\ IsBlank(html) => pages = << <<>> >>
            /\ ~IsBlank(html) =>
                  /\ n * pageHeight >= e
                  /\ n > 1 => (n - 1) * pageHeight < e
                  /\ e <= pageHeight => n = 1
                  /\ e = 2 * pageHeight => n = 2

\* a finished split of a document whose estimate is twice the page height
C6_Witness ==
    /\ ppc = "done"
    /\ ~IsBlank(html)
    /\ estimateContentHeight(html) = 2 * pageHeight
    /\ getPageCount = 2

\* C8: estimateHeight is 40 per heading + 60 per paragraph + 100 per list +
\* 200 per image + 150 per code block + 80 per blockquote + 200, each element
\* of the document counted in exactly one term.
C8_HeightIsWeightedSum ==
    estimateContentHeight(html) =
          40 * NumElems("h") + 60 * NumElems("p") + 100 * NumElems("ul")
        + 200 * NumElems("img") + 150 * NumElems("pre") + 80 * NumElems("bq") + 200

----------------------------------------------------------------------------
(* Claims about recovery *)

RECURSIVE ScanDangling(_, _, _, _)
\* s from index p on, read left to right, without its dangling openers: a
\* complete opening marker is dropped with the text after it up to the next
\* place where one of the texts of stopAt stands, or to the end
ScanDangling(s, p, stopAt, deleting) ==
    IF p >= Len(s) THEN <<>>
    ELSE IF deleting /\ ~(\E t \in stopAt : StartsAt(s, t, p))
         THEN ScanDangling(s, p + 1, stopAt, TRUE)
    ELSE IF OpeningEndAt(s, p) # -1
         THEN ScanDangling(s, OpeningEndAt(s, p), stopAt, TRUE)
    ELSE <<s[p + 1]>> \o ScanDangling(s, p + 1, stopAt, FALSE)

RECURSIVE DropClosers(_, _)
\* s from index p on, read left to right, without its closing markers
DropClosers(s, p) ==
    IF p >= Len(s) THEN <<>>
    ELSE IF StartsAt(s, CloseTag, p) THEN DropClosers(s, p + 3)
    ELSE <<s[p + 1]>> \o DropClosers(s, p + 1)

\* the step in which the innermost invocation leaves its loop for the cleanup
LoopExit ==
    /\ pc = "blocks" /\ pc' = "blocks"
    /\ Len(stack') = Len(stack)
    /\ Top.fpc = "loop"
    /\ stack'[Len(stack)].fpc = "restore"

\* the cleanup turns the working text into Recovered(s) when s holds the
\* opening-marker syntax and leaves it alone otherwise
CleanupIs(Recovered(_)) ==
    LoopExit =>
        stack'[Len(stack)].result =
            IF HasOpenPrefix(Top.result) THEN Recovered(Top.result) ELSE Top.result

RecoveredToOpener(s) == DropClosers(ScanDangling(s, 0, {OpenPrefix}, FALSE), 0)

RecoveredToOpenerOrCloser(s) ==
    DropClosers(ScanDangling(s, 0, {OpenPrefix, CloseTag}, FALSE), 0)

\* C11 as stated: recovery removes each dangling opener with all text up to
\* the next opening marker or the end of the text, text after an intervening
\* closing marker included, and removes every orphan closing marker; when no
\* opening marker remains nothing is removed.
C11_RecoveryUpToOpener == [][CleanupIs(RecoveredToOpener)]_vars

\* C11: recovery removes each dangling opener with the text up to the next
\* opening marker, the next closing marker or the end of the text, whichever
\* comes first, so text after an intervening closing marker is kept; it then
\* removes every closing marker of the text that is left; when no opening
\* marker remains nothing is removed.
C11_RecoveryUpToOpenerOrCloser == [][CleanupIs(RecoveredToOpenerOrCloser)]_vars

\* recovery has run on a text that begins with a dangling opener and holds a
\* closing marker, and has kept some of the text
C11_Witness ==
    /\ pc = "blocks"
    /\ Len(stack) = 1
    /\ Top.warned /\ Top.fpc = "restore"
    /\ ~HasBackquote(Top.text) /\ ~HasToken(Top.text)
    /\ OpeningEndAt(Top.text, 0) # -1
    /\ SearchClosing(Top.text) # -1
    /\ Top.result # <<>>

----------------------------------------------------------------------------
(* Claims about the code guard *)

\* C12: restoreCodeBlocks is idempotent: for the guarded text and the table
\* protectCodeBlocks produces from the text of any invocation of
\* processAllBlocks, restoring the restored text again changes nothing.
C12_RestoreIdempotent ==
    \A k \in 1..Len(stack) :
        LET guarded == protectCodeBlocks(stack[k].text)
            once    == restoreCodeBlocks(guarded.protectedText, guarded.codeBlocks)
        IN  restoreCodeBlocks(once, guarded.codeBlocks) = once

----------------------------------------------------------------------------
(* Claims about the Markdown Bridge *)

\* whether s holds the opening of a container element
HasContainerMarkup(s) == IndexOf(s, DivOpenPrefix, 0) # -1

\* C13: the rendered markup of a container is never submitted to the Markdown
\* Bridge again: when the document itself holds no container markup, no
\* argument of a Bridge call holds any, whether the container is at top level
\* or nested inside another container.
C13_ContainerNotResubmitted ==
    ~HasContainerMarkup(ptext) =>
        \A k \in 1..Len(bridgeLog) : ~HasContainerMarkup(bridgeLog[k])

----------------------------------------------------------------------------
(* Claims about the break-point search *)

\* the fragment the claim gives page i of html: the naive slice, cut right
\* after the complete closing tag that starts at the latest closing-tag
\* position when that position is at or beyond 70% of the share
ClaimedPage(s, cpp, i) ==
    LET start  == i * cpp
        naive  == Substring(s, start, Min2(start + cpp, Len(s)))
        bp     == LastIndexOf(naive, <<"<", "/">>)
        tagEnd == IF bp = -1 THEN -1 ELSE IndexOf(naive, <<">">>, bp)
    IN  IF bp # -1 /\ 10 * bp >= 7 * cpp /\ tagEnd # -1
        THEN Substring(naive, 0, tagEnd + 1)
        ELSE naive

\* C14: every page except the last is cut at the latest closing-tag position
\* of its naive slice exactly when that position is at or beyond 70% of the
\* share, and then ends right after the complete closing tag whatever its
\* length; otherwise the naive cut is kept.
C14_BreakAfterClosingTag ==
    (ppc \in {"loop", "done"} /\ pagesNeeded > 1) =>
        \A k \in 1..Len(pages) :
            k < pagesNeeded => pages[k] = ClaimedPage(html, contentPerPage, k - 1)

----------------------------------------------------------------------------
(* Claims about one pass of processAngleBlocks *)

RECURSIVE FirstOpenerFrom(_, _)
\* the index of the first opening marker with a non-empty class list at or
\* after p, read left to right; -1 if there is none
FirstOpenerFrom(s, p) ==
    IF p + 5 > Len(s) THEN -1
    ELSE IF StartsAt(s, OpenPrefix, p) /\ s[p + 4] # "'" /\ IndexOf(s, Quote, p + 4) # -1
         THEN p
    ELSE FirstOpenerFrom(s, p + 1)

\* the first opening marker of s, its text and the closer the matcher pairs
\* with it
FirstBlock(s) ==
    LET p      == FirstOpenerFrom(s, 0)
        opener == IF p = -1 THEN <<>> ELSE Substring(s, p, IndexOf(s, Quote, p + 4) + 1)
    IN  [at      |-> p,
         opener  |-> opener,
         closing |-> IF p = -1 THEN -1 ELSE findMatchingClosingTag(s, p, opener)]

\* a pass begins: the first opening marker alone decides what it does
PassBegins ==
    (pc = "blocks" /\ pc' = "blocks" /\ Top.fpc = "loop"
        /\ Top.hasChanges /\ Top.iterations < maxIterations) =>
        LET b == FirstBlock(Top.result)
        IN  IF b.closing = -1
            THEN /\ Len(stack') = Len(stack)
                 /\ stack'[Len(stack)].result = Top.result
                 /\ ~stack'[Len(stack)].hasChanges
                 /\ containers' = containers
                 /\ bridgeLog' = bridgeLog
            ELSE /\ Len(stack') = Len(stack) + 1
                 /\ stack'[Len(stack')].text =
                        Substring(Top.result, b.at + Len(b.opener), b.closing)

\* a pass ends with a splice: one container, where the first opening marker
\* stood, with the text before it and a tail of the text after its closer
PassSplices ==
    (pc = "blocks" /\ Top.fpc = "restore" /\ Len(stack) > 1) =>
        LET caller == stack[Len(stack) - 1]
            b      == FirstBlock(caller.result)
        IN  /\ Len(stack') = Len(stack) - 1
            /\ Len(containers') = Len(containers) + 1
            /\ StartsAt(containers'[Len(containers')].html, DivOpenPrefix, 0)
            /\ \E q \in b.closing..Len(caller.result) :
                   stack'[Len(stack')].result =
                       Substring(caller.result, 0, b.at)
                           \o containers'[Len(containers')].html
                           \o SubstringFrom(caller.result, q)

\* a pass that changed nothing ends the loop, and opening markers that are
\* left when the loop ends go to recovery
LeftToRecovery ==
    /\ (pc = "blocks" /\ Top.fpc = "loop" /\ ~Top.hasChanges) => LoopExit
    /\ (LoopExit /\ FirstOpenerFrom(Top.result, 0) # -1) => stack'[Len(stack)].warned

\* C15: one pass of processAngleBlocks examines only the first opening marker:
\* if the matcher finds its closer the pass splices in exactly one container
\* in its place and stops; if not the pass returns the text unchanged and
\* attempts no later opener, the loop ends, and the blocks that are left go to
\* recovery.
C15_FirstOpenerOnly == [][PassBegins /\ PassSplices /\ LeftToRecovery]_vars

\* recovery has run after a single pass that made no container, on a text in
\* which an opening marker after the first one has a matching closer
C15_Witness ==
    /\ pc = "blocks"
    /\ Len(stack) = 1
    /\ Top.warned /\ Top.iterations = 1
    /\ containers = <<>>
    /\ ~HasBackquote(Top.text) /\ ~HasToken(Top.text)
    /\ \E p \in (FirstOpenerFrom(Top.text, 0) + 1)..Len(Top.text) :
           /\ FirstOpenerFrom(Top.text, p) = p
           /\ findMatchingClosingTag(Top.text, p,
                   Substring(Top.text, p, IndexOf(Top.text, Quote, p + 4) + 1)) # -1

----------------------------------------------------------------------------
(* Claims about balanced documents *)

\* the number of opening markers among the markers ms
NumOpeners(ms) == Cardinality({j \in 1..Len(ms) : ms[j][1] = "open"})

\* every opening marker of text has a non-empty class list and a matching
\* closing marker, and every closing marker an opening marker
Balanced(text) ==
    LET ms == MarkersFrom(text, 0)
    IN  /\ NumOpeners(ms) >= 1
        /\ \A j \in 1..Len(ms) :
               /\ DepthAfter(ms, j) >= 1
               /\ ms[j][1] = "open" => OpeningEndAt(text, ms[j][2]) > ms[j][2] + 4
        /\ DepthAfter(ms, Len(ms)) = 1

\* C16: for every fully balanced input parse renders every block as a
\* container and recovery strips nothing, for any nesting depth and any number
\* of sibling blocks, more than maxIterations included.
C16_BalancedAllRendered ==
    (/\ pc = "done"
     /\ ~HasBackquote(ptext) /\ ~HasToken(ptext) /\ ~HasContainerMarkup(ptext)
     /\ Balanced(ptext)) =>
        /\ Len(containers) = NumOpeners(MarkersFrom(ptext, 0))
        /\ \A k \in 1..Len(diagnostics) : diagnostics[k] # "removing unprocessed"

====
